---------------------------- MODULE Spec2Model ----------------------------
(***************************************************************************)
(* A model of server/src/main.rs: the synchronized file store (get_file,   *)
(* save_file) and the workspace search (perform_search).                   *)
(*                                                                         *)
(* Representation.  A byte string or a Rust String is a run-length         *)
(* sequence << <<v1, n1>>, <<v2, n2>>, ... >> of values (bytes 0..255, or  *)
(* Unicode code points) with their repeat counts, in normal form: every    *)
(* count is positive and adjacent runs hold different values.  So equal    *)
(* strings have equal representations, and strings of 8192 bytes or 200    *)
(* characters are small values.  A path or a query is a plain sequence of  *)
(* code points.                                                            *)
(***************************************************************************)
EXTENDS Integers, Sequences, FiniteSets, TLC

(***************************************************************************)
(* Run-length strings                                                      *)
(***************************************************************************)

RECURSIVE RLen(_)
\* The number of bytes (characters) of a run-length string.
RLen(s) == IF s = <<>> THEN 0 ELSE s[1][2] + RLen(Tail(s))

\* Concatenation of two normal-form strings, in normal form.
RCat(a, b) ==
    IF a = <<>> THEN b
    ELSE IF b = <<>> THEN a
    ELSE IF a[Len(a)][1] = b[1][1]
         THEN SubSeq(a, 1, Len(a) - 1)
              \o << <<b[1][1], a[Len(a)][2] + b[1][2]>> >>
              \o Tail(b)
         ELSE a \o b

RECURSIVE RTake(_, _)
\* The first k bytes of s (all of s when it is shorter): Iterator::take.
RTake(s, k) ==
    IF k <= 0 \/ s = <<>> THEN <<>>
    ELSE IF s[1][2] >= k THEN << <<s[1][1], k>> >>
    ELSE <<s[1]>> \o RTake(Tail(s), k - s[1][2])

RECURSIVE RDrop(_, _)
\* s without its first k bytes.
RDrop(s, k) ==
    IF k <= 0 THEN s
    ELSE IF s = <<>> THEN <<>>
    ELSE IF s[1][2] > k THEN << <<s[1][1], s[1][2] - k>> >> \o Tail(s)
    ELSE RDrop(Tail(s), k - s[1][2])

\* The i-th byte of s, 1 <= i <= RLen(s).
RAt(s, i) == RTake(RDrop(s, i - 1), 1)[1][1]

\* The run-length string of a plain sequence of values: one run for each
\* maximal stretch of equal values.
RStr(p) ==
    LET starts == { i \in 1..Len(p) : i = 1 \/ p[i] # p[i - 1] }
        n == Cardinality(starts)
        nth(k) == CHOOSE i \in starts : Cardinality({ j \in starts : j <= i }) = k
    IN  [k \in 1..n |->
           <<p[nth(k)], (IF k = n THEN Len(p) + 1 ELSE nth(k + 1)) - nth(k)>>]

\* Whether value v occurs in s.
RHas(s, v) == \E i \in 1..Len(s) : s[i][1] = v

(***************************************************************************)
(* String <-> bytes.  The model's byte alphabet is ASCII, the lead byte    *)
(* 0xEF (239) of a three-byte sequence, the continuation bytes 0x80..0xBF  *)
(* and the byte 0xFF (255), which is never valid UTF-8; its characters are *)
(* ASCII and U+F000..U+FFFF, among them U+FFFD (65533), the replacement    *)
(* character.                                                              *)
(***************************************************************************)

IsCont(b) == b >= 128 /\ b <= 191

RECURSIVE from_utf8_lossy(_)
\* String::from_utf8_lossy: each maximal invalid part becomes U+FFFD.
from_utf8_lossy(bytes) ==
    IF bytes = <<>> THEN <<>>
    ELSE LET b == bytes[1][1]
             n == bytes[1][2]
         IN  IF b < 128
             THEN RCat(<< <<b, n>> >>, from_utf8_lossy(Tail(bytes)))
             ELSE IF b # 239
             THEN RCat(<< <<65533, n>> >>, from_utf8_lossy(Tail(bytes)))
             ELSE IF n > 1
             THEN RCat(<< <<65533, n - 1>> >>,
                       from_utf8_lossy(<< <<239, 1>> >> \o Tail(bytes)))
             ELSE IF RLen(bytes) >= 2 /\ IsCont(RAt(bytes, 2))
             THEN IF RLen(bytes) >= 3 /\ IsCont(RAt(bytes, 3))
                  THEN RCat(<< <<61440 + (RAt(bytes, 2) - 128) * 64
                                       + (RAt(bytes, 3) - 128), 1>> >>,
                            from_utf8_lossy(RDrop(bytes, 3)))
                  ELSE RCat(<< <<65533, 1>> >>, from_utf8_lossy(RDrop(bytes, 2)))
             ELSE RCat(<< <<65533, 1>> >>, from_utf8_lossy(RDrop(bytes, 1)))

RECURSIVE as_bytes(_)
\* str::as_bytes: the UTF-8 encoding of a String.
as_bytes(str) ==
    IF str = <<>> THEN <<>>
    ELSE LET c == str[1][1]
             n == str[1][2]
         IN  IF c < 128
             THEN RCat(<< <<c, n>> >>, as_bytes(Tail(str)))
             ELSE RCat(RStr(<<239, 128 + ((c - 61440) \div 64), 128 + (c % 64)>>),
                       as_bytes(IF n > 1 THEN << <<c, n - 1>> >> \o Tail(str)
                                         ELSE Tail(str)))

(***************************************************************************)
(* The helpers of main.rs                                                  *)
(***************************************************************************)

\* blake3 is collision resistant: the model's fingerprint is an injective
\* tag of the bytes hashed, so two fingerprints are equal iff the bytes are.
generate_etag(bytes) == <<"blake3", bytes>>

BinaryWindow == 8192

\* A variant that looks for a zero byte in the whole file.
is_binary_WholeFile(data) == RHas(data, 0)

\* A variant whose window is one byte short.
is_binary_ShortWindow(data) == RHas(RTake(data, BinaryWindow - 1), 0)

\* data.iter().take(8192).any(|&b| b == 0)
is_binary(data) == RHas(RTake(data, BinaryWindow), 0)

\* str::contains on plain sequences.
Contains(hay, needle) ==
    \E i \in 0..(Len(hay) - Len(needle)) :
        SubSeq(hay, i + 1, i + Len(needle)) = needle

\* Path::join: an absolute rel replaces root.
PathJoin(root, rel) ==
    IF rel # <<>> /\ rel[1] = 47 THEN rel
    ELSE IF root # <<>> /\ root[Len(root)] = 47 THEN root \o rel
    ELSE root \o <<47>> \o rel

\* The error of safe_path: a value that is no path.
NoPath == <<-1>>

\* A variant that rejects ".." only at the start of the path.
safe_path_LeadingOnly(root, rel) ==
    IF Len(rel) >= 2 /\ SubSeq(rel, 1, 2) = <<46, 46>> THEN NoPath ELSE PathJoin(root, rel)

\* safe_path: Err (here NoPath) when rel contains "..", else root.join(rel).

safe_path(root, rel) ==
    IF Contains(rel, <<46, 46>>) THEN NoPath ELSE PathJoin(root, rel)

\* The index of the last v in p, 0 when there is none.
LastIndex(p, v) ==
    IF \E i \in 1..Len(p) : p[i] = v
    THEN CHOOSE i \in 1..Len(p) : p[i] = v /\ \A j \in (i + 1)..Len(p) : p[j] # v
    ELSE 0

\* Path::with_extension: the file name's part after its last "." (when there
\* is a non-empty part before it) is replaced by ext; a path with no file
\* name is left as it is.
with_extension(path, ext) ==
    LET slash == LastIndex(path, 47)
        name  == SubSeq(path, slash + 1, Len(path))
        dot   == LastIndex(name, 46)
        stem  == IF dot <= 1 THEN name ELSE SubSeq(name, 1, dot - 1)
    IN  IF name = <<>> \/ name = <<46, 46>> THEN path
        ELSE SubSeq(path, 1, slash) \o stem \o <<46>> \o ext

(***************************************************************************)
(* The synchronized file store: state                                      *)
(***************************************************************************)

\* Calls started and modifications made from outside the server, in one
\* behaviour.
MaxCalls == 2
MaxExt == 1

\* Concurrent requests: the handlers run on the runtime's worker threads.
Clients == {"c1", "c2"}

\* AppState.repo_root: "/w".
Root == <<47, 119>>

\* "tmp_save"
TmpExt == <<116, 109, 112, 95, 115, 97, 118, 101>>

\* Relative paths a request may carry: "a.rs", "../a.rs", "a..rs".
RelInputs == { <<97, 46, 114, 115>>,
               <<46, 46, 47, 97, 46, 114, 115>>,
               <<97, 46, 46, 114, 115>> }

\* Contents a save request may carry: "b", and "a\0" (a String may hold
\* U+0000).
StrInputs == { RStr(<<98>>), RStr(<<97, 0>>) }

\* What a file holds at the start or is given from outside the server: "a";
\* the byte 0xFF (not UTF-8); 8192 times "a" and then a zero byte.
ExtBytes == { RStr(<<97>>), RStr(<<255>>), << <<97, 8192>>, <<0, 1>> >> }

\* No file at a path: a value that is no run-length string.
NoFile == << <<-1, 0>> >>

\* The destinations of the requests with a valid path, and their temporary
\* paths.
DestPaths == { safe_path(Root, r) : r \in RelInputs } \ {NoPath}

\* A second destination whose name differs from the first only in its
\* extension: "a.txt".
PairRel == <<97, 46, 116, 120, 116>>

PairPaths == DestPaths \cup {safe_path(Root, PairRel)}

FsPaths == PairPaths \cup { with_extension(p, TmpExt) : p \in PairPaths }

\* Fingerprints a save request may carry: that of a file holding "a", that of
\* one holding "b", or "" (none).
EtagInputs == { generate_etag(RStr(<<97>>)), generate_etag(RStr(<<98>>)), <<>> }

\* The save requests: every content and fingerprint for a valid path, one
\* request for each invalid path.
SaveInputs ==
    { [op |-> "write", rel |-> r, content |-> s, etag |-> e] :
        r \in { x \in RelInputs : safe_path(Root, x) # NoPath },
        s \in StrInputs, e \in EtagInputs }
    \cup
    { [op |-> "write", rel |-> r, content |-> RStr(<<98>>), etag |-> <<>>] :
        r \in { x \in RelInputs : safe_path(Root, x) = NoPath } }

\* No open file; an open file that no path names any more.
NoFd == <<-2>>
Unlinked == <<-3>>
NoReq == [op |-> "none"]
NoTok == [rel |-> <<>>, etag |-> <<>>, content |-> <<>>, from |-> "none"]

VARIABLES
    fs,       \* the directory: path -> the bytes of the file there, or NoFile
    fd,       \* client -> where the file it has open for writing is now
    pc,       \* client -> the handler's position
    req,      \* client -> the request being handled (or handled last)
    outcome,  \* client -> the response
    io,       \* client -> the filesystem operations of the call, in order
    wrote,    \* client -> the paths whose file the call's own steps changed
    tok,      \* client -> the editor's buffer: path, fingerprint, content
    chg,      \* client -> the file of tok was changed since tok was issued
    ncalls,   \* client -> the number of calls it has started
    nmods,    \* the number of changes made from outside the server
    up        \* the server process runs

storeVars == <<fs, fd, pc, req, outcome, io, wrote, tok, chg, ncalls, nmods, up>>

\* The state of the workspace search.
VARIABLES
    sreq,       \* the search being run, NoSearch before it starts
    spc,        \* "idle", "walk" (in the loop over the entries), "done"
    spos,       \* the index of the next entry WalkDir yields
    results     \* the result list

searchVars == <<sreq, spc, spos, results>>

\* No call has started.
StoreIdle ==
    /\ fd = [c \in Clients |-> NoFd]
    /\ pc = [c \in Clients |-> "idle"]
    /\ req = [c \in Clients |-> NoReq]
    /\ outcome = [c \in Clients |-> [kind |-> "none"]]
    /\ io = [c \in Clients |-> <<>>]
    /\ wrote = [c \in Clients |-> {}]
    /\ tok = [c \in Clients |-> NoTok]
    /\ chg = [c \in Clients |-> FALSE]
    /\ ncalls = [c \in Clients |-> 0]
    /\ nmods = 0
    /\ up = TRUE

StoreInit ==
    /\ \E b \in {NoFile} \cup ExtBytes :
         fs = [p \in FsPaths |-> IF p \in DestPaths THEN b ELSE NoFile]
    /\ StoreIdle

(***************************************************************************)
(* The synchronized file store: operations                                 *)
(***************************************************************************)

TmpPath(path) == with_extension(path, TmpExt)

\* A write of all of data at offset 0 of a file holding old: what write_all
\* does through a descriptor that File::create has just opened.
Overwrite(old, data) == RCat(data, RDrop(old, RLen(data)))

\* The path of the file the buffer of client k was read from or saved to.
TokPath(k) == safe_path(Root, tok[k].rel)

\* A step of client c that takes the directory to nfs: the other clients'
\* buffers go stale when their file changes, c's call has changed the files
\* that differ.
Stale(k, nfs) == chg[k] \/ (tok[k].from # "none" /\ nfs[TokPath(k)] # fs[TokPath(k)])

Changed(nfs) == { p \in FsPaths : nfs[p] # fs[p] }

\* A step of the call of client c: the directory becomes nfs, the response
\* res, the position npc; op is the filesystem operation performed.
Step(c, nfs, nfd, npc, res, op) ==
    /\ fs' = nfs
    /\ fd' = nfd
    /\ pc' = [pc EXCEPT ![c] = npc]
    /\ outcome' = [outcome EXCEPT ![c] = res]
    /\ io' = [io EXCEPT ![c] = Append(@, op)]
    /\ wrote' = [wrote EXCEPT ![c] = @ \cup Changed(nfs)]
    /\ tok' = [tok EXCEPT ![c] =
                 IF res.kind = "ok"
                 THEN [rel |-> req[c].rel, etag |-> res.new_etag,
                       content |-> req[c].content, from |-> "write"]
                 ELSE @]
    /\ chg' = [k \in Clients |->
                 IF k = c /\ res.kind = "ok" THEN FALSE ELSE Stale(k, nfs)]
    /\ UNCHANGED <<req, ncalls, nmods, up, searchVars>>

Pending == [kind |-> "pending"]
ServerError == [kind |-> "error", status |-> 500]

\* get_file: one read of the file.
GetFileResult(rel, ioerr) ==
    LET path == safe_path(Root, rel)
    IN  IF path = NoPath THEN [kind |-> "invalid_path", status |-> 400]
        ELSE IF fs[path] = NoFile \/ ioerr THEN [kind |-> "not_found", status |-> 404]
        ELSE IF is_binary(fs[path]) THEN [kind |-> "unsupported", status |-> 415]
        ELSE [kind |-> "file", status |-> 200,
              etag |-> generate_etag(fs[path]),
              content |-> from_utf8_lossy(fs[path])]

GetFile(c, rel, ioerr) ==
    /\ up
    /\ pc[c] = "idle"
    /\ LET res == GetFileResult(rel, ioerr)
       IN  /\ outcome' = [outcome EXCEPT ![c] = res]
           /\ io' = [io EXCEPT ![c] =
                       IF res.kind = "invalid_path" THEN <<>>
                       ELSE IF res.kind = "not_found" THEN <<"read:fail">>
                       ELSE <<"read">>]
           /\ tok' = [tok EXCEPT ![c] =
                        IF res.kind = "file"
                        THEN [rel |-> rel, etag |-> res.etag,
                              content |-> res.content, from |-> "read"]
                        ELSE @]
           /\ chg' = [chg EXCEPT ![c] = IF res.kind = "file" THEN FALSE ELSE @]
    /\ req' = [req EXCEPT ![c] = [op |-> "read", rel |-> rel]]
    /\ wrote' = [wrote EXCEPT ![c] = {}]
    /\ ncalls' = [ncalls EXCEPT ![c] = @ + 1]
    /\ UNCHANGED <<fs, fd, pc, nmods, up, searchVars>>

\* save_file, lines 211-213: safe_path, then path.exists().
SaveStart(c, r) ==
    /\ up
    /\ pc[c] = "idle"
    /\ req' = [req EXCEPT ![c] = r]
    /\ LET path == safe_path(Root, r.rel)
       IN  IF path = NoPath
           THEN /\ outcome' = [outcome EXCEPT ![c] =
                                 [kind |-> "invalid_path", status |-> 400]]
                /\ io' = [io EXCEPT ![c] = <<>>]
                /\ pc' = pc
           ELSE /\ outcome' = [outcome EXCEPT ![c] = Pending]
                /\ io' = [io EXCEPT ![c] =
                            IF fs[path] # NoFile THEN <<"exists:yes">>
                                                 ELSE <<"exists:no">>]
                /\ pc' = [pc EXCEPT ![c] =
                            IF fs[path] # NoFile THEN "read" ELSE "create"]
    /\ wrote' = [wrote EXCEPT ![c] = {}]
    /\ ncalls' = [ncalls EXCEPT ![c] = @ + 1]
    /\ UNCHANGED <<fs, fd, tok, chg, nmods, up, searchVars>>

\* A variant that accepts every fingerprint.
CheckEtag_AcceptsAll(current_bytes, etag) == Pending

\* The fingerprint check of lines 214-221 on the bytes read.

CheckEtag(current_bytes, etag) ==
    IF generate_etag(current_bytes) # etag
    THEN [kind |-> "conflict", status |-> 200]
    ELSE Pending

\* save_file, lines 214-221: read the file, compare the fingerprints.
SaveRead(c, ioerr) ==
    /\ up
    /\ pc[c] = "read"
    /\ LET path == safe_path(Root, req[c].rel)
       IN  IF fs[path] = NoFile \/ ioerr
           THEN Step(c, fs, fd, "idle", ServerError, "read:fail")
           ELSE LET res == CheckEtag(fs[path], req[c].etag)
                IN  Step(c, fs, fd, IF res = Pending THEN "create" ELSE "idle",
                         res, "read")

\* save_file, line 225, first half: std::fs::write opens the temporary file
\* with File::create, which creates it or truncates the one there.
SaveCreate(c, ioerr) ==
    /\ up
    /\ pc[c] = "create"
    /\ LET tmp_path == TmpPath(safe_path(Root, req[c].rel))
       IN  IF ioerr
           THEN Step(c, fs, fd, "idle", ServerError, "create:fail")
           ELSE Step(c, [fs EXCEPT ![tmp_path] = <<>>],
                     [fd EXCEPT ![c] = tmp_path], "write", Pending, "create")

\* save_file, line 225, second half: write_all on the open file, wherever a
\* rename has taken it since, and close.
SaveWrite(c, ioerr) ==
    /\ up
    /\ pc[c] = "write"
    /\ IF ioerr
       THEN Step(c, fs, [fd EXCEPT ![c] = NoFd], "idle", ServerError, "write:fail")
       ELSE Step(c,
                 IF fd[c] = Unlinked THEN fs
                 ELSE [fs EXCEPT ![fd[c]] = Overwrite(@, as_bytes(req[c].content))],
                 [fd EXCEPT ![c] = NoFd], "rename", Pending, "write")

\* The descriptors after path `from` was renamed to `to`.
Renamed(from, to) ==
    [k \in Clients |-> IF from = to THEN fd[k]
                       ELSE IF fd[k] = from THEN to
                       ELSE IF fd[k] = to THEN Unlinked
                       ELSE fd[k]]

\* save_file, lines 228-232: rename the temporary file over the destination
\* and answer with the fingerprint of the request's content.
SaveRename(c, ioerr) ==
    /\ up
    /\ pc[c] = "rename"
    /\ LET path == safe_path(Root, req[c].rel)
           tmp_path == TmpPath(path)
       IN  IF fs[tmp_path] = NoFile \/ ioerr
           THEN Step(c, fs, fd, "idle", ServerError, "rename:fail")
           ELSE Step(c,
                     IF tmp_path = path THEN fs
                     ELSE [fs EXCEPT ![path] = fs[tmp_path], ![tmp_path] = NoFile],
                     Renamed(tmp_path, path), "idle",
                     [kind |-> "ok", status |-> 200,
                      new_etag |-> generate_etag(as_bytes(req[c].content))],
                     "rename")

\* The environment's step to directory nfs and descriptors nfd.
EnvStep(nfs, nfd) ==
    /\ fs' = nfs
    /\ fd' = nfd
    /\ chg' = [k \in Clients |-> Stale(k, nfs)]

\* Another program (an editor, git) writes a file of the workspace.
ExtPut(p, b) ==
    /\ nmods < MaxExt
    /\ fs[p] # b
    /\ EnvStep([fs EXCEPT ![p] = b], fd)
    /\ nmods' = nmods + 1
    /\ UNCHANGED <<pc, req, outcome, io, wrote, tok, ncalls, up, searchVars>>

\* Another program deletes a file of the workspace.
ExtDelete(p) ==
    /\ nmods < MaxExt
    /\ fs[p] # NoFile
    /\ EnvStep([fs EXCEPT ![p] = NoFile],
               [k \in Clients |-> IF fd[k] = p THEN Unlinked ELSE fd[k]])
    /\ nmods' = nmods + 1
    /\ UNCHANGED <<pc, req, outcome, io, wrote, tok, ncalls, up, searchVars>>

\* The server process dies: every call in progress stops where it is and
\* gives no response; the files stay as they are.
Crash ==
    /\ up
    /\ \E c \in Clients : pc[c] # "idle"
    /\ up' = FALSE
    /\ pc' = [c \in Clients |-> "idle"]
    /\ outcome' = [c \in Clients |->
                     IF pc[c] # "idle" THEN [kind |-> "crashed"] ELSE outcome[c]]
    /\ fd' = [c \in Clients |-> NoFd]
    /\ UNCHANGED <<fs, req, io, wrote, tok, chg, ncalls, nmods, searchVars>>

\* The number of calls started so far.
Started ==
    LET sum[D \in SUBSET Clients] ==
          IF D = {} THEN 0
          ELSE LET c == CHOOSE x \in D : TRUE IN ncalls[c] + sum[D \ {c}]
    IN  sum[Clients]

\* The steps of the store while fewer than `calls` calls have been started.
StoreNext(calls) ==
    \/ /\ Started < calls
       /\ \E c \in Clients, rel \in RelInputs, ioerr \in BOOLEAN : GetFile(c, rel, ioerr)
    \/ /\ Started < calls
       /\ \E c \in Clients, r \in SaveInputs : SaveStart(c, r)
    \/ \E c \in Clients, ioerr \in BOOLEAN : SaveRead(c, ioerr)
    \/ \E c \in Clients, ioerr \in BOOLEAN : SaveCreate(c, ioerr)
    \/ \E c \in Clients, ioerr \in BOOLEAN : SaveWrite(c, ioerr)
    \/ \E c \in Clients, ioerr \in BOOLEAN : SaveRename(c, ioerr)
    \/ \E p \in DestPaths, b \in ExtBytes : ExtPut(p, b)
    \/ \E p \in DestPaths : ExtDelete(p)
    \/ Crash

(***************************************************************************)
(* The workspace search: strings                                           *)
(***************************************************************************)

RECURSIVE Expand(_)
\* The plain sequence of a run-length string.
Expand(s) ==
    IF s = <<>> THEN <<>>
    ELSE [i \in 1..s[1][2] |-> s[1][1]] \o Expand(Tail(s))

\* char::to_ascii_lowercase, and str::to_ascii_lowercase on a plain sequence.
LowerChar(ch) == IF ch >= 65 /\ ch <= 90 THEN ch + 32 ELSE ch

to_ascii_lowercase(p) == [i \in 1..Len(p) |-> LowerChar(p[i])]

\* The UTF-8 length of the first n characters of p: a byte offset.
ByteOffset(p, n) == n + 2 * Cardinality({ i \in 1..n : p[i] >= 128 })

\* str::find: the index (from 0, in characters) of the first occurrence of
\* needle in hay, -1 when there is none.
Find(hay, needle) ==
    LET at == { i \in 0..(Len(hay) - Len(needle)) :
                  SubSeq(hay, i + 1, i + Len(needle)) = needle }
    IN  IF at = {} THEN -1 ELSE CHOOSE i \in at : \A j \in at : i <= j

\* The regular expressions of the model: a sequence of literal characters
\* and "." (any character but "\n"), matched without regard to case; a
\* pattern holding "(" (always unclosed here) does not compile.
NoRegex == <<-1>>

RegexBuild(query) == IF \E i \in 1..Len(query) : query[i] = 40 THEN NoRegex ELSE query

RegexMatchesAt(r, hay, i) ==
    /\ i + Len(r) <= Len(hay)
    /\ \A k \in 1..Len(r) :
         IF r[k] = 46 THEN hay[i + k] # 10
         ELSE LowerChar(r[k]) = LowerChar(hay[i + k])

\* Regex::find(hay).start() in characters from 0, -1 when there is no match.
RegexFind(r, hay) ==
    LET at == { i \in 0..Len(hay) : RegexMatchesAt(r, hay, i) }
    IN  IF at = {} THEN -1 ELSE CHOOSE i \in at : \A j \in at : i <= j

\* str::lines on a run-length text, cur being the line in progress: split
\* at "\n", a "\r" before it dropped; a last line needs no terminator.
RECURSIVE RLines(_, _)
RLines(text, cur) ==
    IF text = <<>> THEN (IF cur = <<>> THEN <<>> ELSE <<cur>>)
    ELSE IF text[1][1] = 10
         THEN << IF cur # <<>> /\ cur[Len(cur)][1] = 13
                 THEN RTake(cur, RLen(cur) - 1) ELSE cur >>
              \o [i \in 1..(text[1][2] - 1) |-> <<>>]
              \o RLines(Tail(text), <<>>)
         ELSE RLines(Tail(text), RCat(cur, <<text[1]>>))

IsSpace(ch) == ch \in {9, 10, 11, 12, 13, 32}

RECURSIVE TrimStart(_)
TrimStart(s) == IF s # <<>> /\ IsSpace(s[1][1]) THEN TrimStart(Tail(s)) ELSE s

RECURSIVE TrimEnd(_)
TrimEnd(s) ==
    IF s # <<>> /\ IsSpace(s[Len(s)][1]) THEN TrimEnd(SubSeq(s, 1, Len(s) - 1)) ELSE s

\* str::trim on a run-length string.
Trim(s) == TrimEnd(TrimStart(s))


(***************************************************************************)
(* The workspace search: paths                                             *)
(***************************************************************************)

\* Path::components as names: the path split at "/", cur being the name in
\* progress (the root component "/" is no name and is left out).
Components(path, cur) ==
    LET full == cur \o path
        starts == { i \in 1..Len(full) :
                      full[i] # 47 /\ (i = 1 \/ full[i - 1] = 47) }
        nth(k) == CHOOSE i \in starts : Cardinality({ j \in starts : j <= i }) = k
        last(i) == CHOOSE j \in i..Len(full) :
                      /\ j = Len(full) \/ full[j + 1] = 47
                      /\ \A m \in i..j : full[m] # 47
    IN  [k \in 1..Cardinality(starts) |-> SubSeq(full, nth(k), last(nth(k)))]

\* ".git", "node_modules", "target", "dist", "codeedit"
ExcludedNames ==
    { <<46, 103, 105, 116>>,
      <<110, 111, 100, 101, 95, 109, 111, 100, 117, 108, 101, 115>>,
      <<116, 97, 114, 103, 101, 116>>,
      <<100, 105, 115, 116>>,
      <<99, 111, 100, 101, 101, 100, 105, 116>> }

\* A variant that looks for an excluded name anywhere in the path string.
Excluded_Substring(path) == \E n \in ExcludedNames : Contains(path, n)

Excluded(path) ==
    LET cs == Components(path, <<>>)
    IN  \E i \in 1..Len(cs) : cs[i] \in ExcludedNames

ends_with(str, suffix) ==
    /\ Len(suffix) <= Len(str)
    /\ SubSeq(str, Len(str) - Len(suffix) + 1, Len(str)) = suffix

RECURSIVE trim_start_matches(_, _)
trim_start_matches(str, ch) ==
    IF str # <<>> /\ str[1] = ch THEN trim_start_matches(Tail(str), ch) ELSE str

NoGlob == <<-1>>

\* Path::strip_prefix(root).unwrap_or(path): whole components of root are
\* taken off the front; a path not under root is kept as it is.
strip_prefix(path, root) ==
    LET pcs == Components(path, <<>>)
        rcs == Components(root, <<>>)
        rest == SubSeq(pcs, Len(rcs) + 1, Len(pcs))
        join[i \in 0..Len(rest)] ==
            IF i = 0 THEN <<>>
            ELSE IF i = 1 THEN rest[1]
            ELSE join[i - 1] \o <<47>> \o rest[i]
    IN  IF Len(rcs) <= Len(pcs) /\ SubSeq(pcs, 1, Len(rcs)) = rcs
        THEN join[Len(rest)]
        ELSE path

\* "FILENAME MATCH: "
FilenamePrefix == <<70, 73, 76, 69, 78, 65, 77, 69, 32, 77, 65, 84, 67, 72, 58, 32>>

(***************************************************************************)
(* The workspace search: workspaces and requests                           *)
(***************************************************************************)

\* The cap on the result list and the cap on a preview's characters.
ResultCap == 2000

PreviewLimit == 200

\* The number of files of a large workspace.
MaxFiles == 2003

RECURSIVE Digits(_)
Digits(n) == IF n < 10 THEN <<48 + n>> ELSE Digits(n \div 10) \o <<48 + (n % 10)>>

Dir(path) == [path |-> path, kind |-> "dir", readable |-> TRUE, bytes |-> <<>>]

File(path, bytes) == [path |-> path, kind |-> "file", readable |-> TRUE, bytes |-> bytes]

Locked(path) == [path |-> path, kind |-> "file", readable |-> FALSE, bytes |-> <<>>]

\* What WalkDir yields for a small workspace under /w, in its order: an
\* entry is a directory, a file, a symbolic link, or a traversal error.
SmallWalk ==
    << Dir(<<47, 119>>),
       Dir(<<47, 119, 47, 115, 114, 99>>),
       File(<<47, 119, 47, 115, 114, 99, 47, 113, 46, 114, 115>>, RCat(RStr(<<102, 110, 32, 113, 10, 32, 32, 81, 32, 113, 32, 10, 10, 120, 40, 113, 13, 10, 122, 122, 10>>), RCat(<< <<32, 3>>, <<113, 300>> >>, RStr(<<255, 10>>)))),
       File(<<47, 119, 47, 115, 114, 99, 47, 81, 46, 116, 120, 116>>, RStr(<<110, 111, 110, 101, 10>>)),
       Dir(<<47, 119, 47, 116, 97, 114, 103, 101, 116>>),
       File(<<47, 119, 47, 116, 97, 114, 103, 101, 116, 47, 113, 46, 114, 115>>, RStr(<<113, 10>>)),
       Dir(<<47, 119, 47, 116, 97, 114, 103, 101, 116, 95, 97, 112, 112>>),
       File(<<47, 119, 47, 116, 97, 114, 103, 101, 116, 95, 97, 112, 112, 47, 109, 46, 114, 115>>, RStr(<<113>>)),
       File(<<47, 119, 47, 113, 46, 98, 105, 110>>, RStr(<<113, 10, 0>>)),
       Locked(<<47, 119, 47, 113, 46, 108, 111, 99, 107>>),
       File(<<47, 119, 47, 113, 56, 49, 57, 50, 46, 98, 105, 110>>, << <<113, 8191>>, <<0, 1>> >>),
       File(<<47, 119, 47, 113, 56, 49, 57, 51, 46, 116, 120, 116>>, << <<113, 8192>>, <<0, 1>> >>),
       File(<<47, 119, 47, 115, 114, 99, 47, 40, 113, 41, 46, 114, 115>>, RStr(<<122, 10>>)),
       File(<<47, 119, 47>> \o [i \in 1..200 |-> 113] \o <<46, 114, 115>>,
            << <<122, 199>>, <<32, 1>>, <<113, 1>>, <<10, 1>> >>),
       [path |-> <<47, 119, 47, 113, 108, 105, 110, 107>>, kind |-> "symlink", readable |-> TRUE, bytes |-> <<>>],
       [path |-> <<47, 119, 47, 113, 103, 111, 110, 101>>, kind |-> "error", readable |-> FALSE, bytes |-> <<>>] >>

\* Large workspaces of MaxFiles files: "names" has binary files whose names
\* hold "q", "locked" unreadable ones, "lines" text files with one line "q"
\* and a name without it, "both" text files with "q" in name and line.
LargeEntry(ws, i) ==
    IF ws = "names" THEN File(<<47, 119, 47, 113>> \o Digits(i), RStr(<<0>>))
    ELSE IF ws = "locked" THEN Locked(<<47, 119, 47, 113>> \o Digits(i))
    ELSE IF ws = "lines" THEN File(<<47, 119, 47, 120>> \o Digits(i), RStr(<<113, 10>>))
    ELSE File(<<47, 119, 47, 113>> \o Digits(i), RStr(<<113, 10>>))

LargeWorkspaces == {"names", "locked", "lines", "both"}

\* A workspace whose root /dist/w has a component of an excluded name.
DistRoot == <<47, 100, 105, 115, 116, 47, 119>>

DistWalk ==
    << Dir(DistRoot),
       File(DistRoot \o <<47, 113, 46, 114, 115>>, RStr(<<113, 10>>)),
       Dir(DistRoot \o <<47, 115, 114, 99>>),
       File(DistRoot \o <<47, 115, 114, 99, 47, 113, 46, 116, 120, 116>>, RStr(<<113, 10>>)) >>

\* The root a workspace is searched from.
WalkRoot(ws) == IF ws = "dist" THEN DistRoot ELSE Root

WalkLen(ws) ==
    IF ws = "small" THEN Len(SmallWalk)
    ELSE IF ws = "dist" THEN Len(DistWalk)
    ELSE MaxFiles + 1

\* The i-th entry WalkDir yields: the root directory comes first.
WalkEntry(ws, i) ==
    IF ws = "small" THEN SmallWalk[i]
    ELSE IF ws = "dist" THEN DistWalk[i]
    ELSE IF i = 1 THEN Dir(Root)
    ELSE LargeEntry(ws, i - 1)

\* "q", "Q." and "(q"; "*.rs" and no filter.
QueryInputs == { <<113>>, <<81, 46>>, <<40, 113>> }

GlobInputs == { NoGlob, <<42, 46, 114, 115>> }

SearchInputs ==
    [ws : {"small"}, query : QueryInputs, use_regex : BOOLEAN, glob : GlobInputs]
    \cup [ws : LargeWorkspaces, query : {<<113>>}, use_regex : {FALSE}, glob : {NoGlob}]
    \cup [ws : {"dist"}, query : {<<113>>}, use_regex : BOOLEAN, glob : {NoGlob}]

NoSearch == [ws |-> "none", query |-> <<>>, use_regex |-> FALSE, glob |-> NoGlob]

(***************************************************************************)
(* The workspace search: perform_search                                    *)
(***************************************************************************)

SearchInit ==
    /\ sreq = NoSearch
    /\ spc = "idle"
    /\ spos = 1
    /\ results = <<>>

\* The compiled expression, NoRegex without use_regex or when it does not build.
Matcher(q) == IF q.use_regex THEN RegexBuild(q.query) ELSE NoRegex

\* Where the query is found in a plain string (characters from 0), -1 if nowhere.
FindIn(q, str) ==
    IF Matcher(q) # NoRegex
    THEN RegexFind(Matcher(q), str)
    ELSE Find(to_ascii_lowercase(str), to_ascii_lowercase(q.query))

RECURSIVE PushLines(_, _, _, _, _)
\* The loop over the lines of a text from line i on: a result per line that
\* holds the query, the loop left once the list is longer than ResultCap.
PushLines(q, rel_path, lines, i, res) ==
    IF i > Len(lines) THEN res
    ELSE LET line == Expand(lines[i])
             idx == FindIn(q, line)
             hit == [file |-> rel_path,
                     line |-> i,
                     column |-> ByteOffset(line, idx) + 1,
                     preview |-> RTake(Trim(lines[i]), PreviewLimit)]
         IN  IF idx = -1 THEN PushLines(q, rel_path, lines, i + 1, res)
             ELSE IF Len(res) + 1 > ResultCap THEN Append(res, hit)
             ELSE PushLines(q, rel_path, lines, i + 1, Append(res, hit))

\* One iteration of the loop over the entries: the list after it, and
\* whether the loop is left (the test at the end of the loop's body).
EntryResults(q, e, res) ==
    LET glob_pattern == IF q.glob = NoGlob THEN NoGlob ELSE trim_start_matches(q.glob, 42)
        rel_path == strip_prefix(e.path, WalkRoot(q.ws))
        named == IF FindIn(q, rel_path) # -1
                 THEN Append(res, [file |-> rel_path, line |-> 1, column |-> 1,
                                   preview |-> RStr(FilenamePrefix \o rel_path)])
                 ELSE res
        text == from_utf8_lossy(e.bytes)
        all == PushLines(q, rel_path, RLines(text, <<>>), 1, named)
    IN  IF e.kind # "file" THEN [results |-> res, brk |-> FALSE]
        ELSE IF Excluded(e.path) THEN [results |-> res, brk |-> FALSE]
        ELSE IF glob_pattern # NoGlob /\ ~ends_with(e.path, glob_pattern)
             THEN [results |-> res, brk |-> FALSE]
        ELSE IF ~e.readable THEN [results |-> named, brk |-> FALSE]
        ELSE IF is_binary(e.bytes) THEN [results |-> named, brk |-> FALSE]
        ELSE [results |-> all, brk |-> Len(all) > ResultCap]

\* A search request arrives.
SearchStart(q) ==
    /\ spc = "idle"
    /\ sreq' = q
    /\ spc' = "walk"
    /\ spos' = 1
    /\ results' = <<>>
    /\ UNCHANGED storeVars

\* The loop's body on the next entry WalkDir yields.
SearchEntry ==
    /\ spc = "walk"
    /\ spos <= WalkLen(sreq.ws)
    /\ LET r == EntryResults(sreq, WalkEntry(sreq.ws, spos), results)
       IN  /\ results' = r.results
           /\ spc' = IF r.brk THEN "done" ELSE "walk"
    /\ spos' = spos + 1
    /\ UNCHANGED <<sreq, storeVars>>

\* WalkDir has no more entries: the list is returned.
SearchReturn ==
    /\ spc = "walk"
    /\ spos > WalkLen(sreq.ws)
    /\ spc' = "done"
    /\ UNCHANGED <<sreq, spos, results, storeVars>>

SearchNext ==
    \/ \E q \in SearchInputs : SearchStart(q)
    \/ SearchEntry
    \/ SearchReturn

(***************************************************************************)
(* Specifications                                                          *)
(***************************************************************************)

vars == <<storeVars, searchVars>>

Init == StoreInit /\ SearchInit

Next == StoreNext(MaxCalls)

\* The file store with two clients, up to MaxCalls calls.
Spec == Init /\ [][Next]_vars

NextLong == StoreNext(MaxCalls + 1)

\* The same with one call more: a client's retry after two calls that raced.
SpecLong == Init /\ [][NextLong]_vars

\* One search of a workspace, the file store left alone.
InitSearch ==
    /\ StoreInit
    /\ \A p \in FsPaths : fs[p] = NoFile
    /\ SearchInit

SpecSearch == InitSearch /\ [][SearchNext]_vars

\* What a file that sits at the temporary path before any call holds.
FrameBytes == RStr(<<97>>)

FrameFs(b) ==
    [p \in FsPaths |-> IF p \in DestPaths THEN b
                       ELSE IF p \in { TmpPath(d) : d \in DestPaths }
                            THEN FrameBytes
                            ELSE NoFile]

\* The file store with a file already at the temporary path.
InitFrame ==
    /\ \E b \in {NoFile} \cup ExtBytes : fs = FrameFs(b)
    /\ StoreIdle
    /\ SearchInit

SpecFrame == InitFrame /\ [][Next]_vars

\* Saves of the two destinations, each carrying the fingerprint of what its
\* file holds.
PairInputs ==
    { [op |-> "write", rel |-> r, content |-> s,
       etag |-> generate_etag(RStr(<<97>>))] :
        r \in { x \in RelInputs : safe_path(Root, x) # NoPath } \cup {PairRel},
        s \in StrInputs }

InitPair ==
    /\ fs = [p \in FsPaths |-> IF p \in PairPaths THEN RStr(<<97>>) ELSE NoFile]
    /\ StoreIdle
    /\ SearchInit

\* Every client saves once and no file operation fails.
NextPair ==
    \/ \E c \in Clients, r \in PairInputs : ncalls[c] = 0 /\ SaveStart(c, r)
    \/ \E c \in Clients : SaveRead(c, FALSE)
    \/ \E c \in Clients : SaveCreate(c, FALSE)
    \/ \E c \in Clients : SaveWrite(c, FALSE)
    \/ \E c \in Clients : SaveRename(c, FALSE)

SpecPair == InitPair /\ [][NextPair]_vars

(***************************************************************************)
(* Claims about the file store                                             *)
(***************************************************************************)

\* The destination of the request of client c.
ReqPath(c) == safe_path(Root, req[c].rel)

\* The path holds "..": the claims' own reading of a parent-traversal path.
HasDotDot(rel) == \E i \in 1..(Len(rel) - 1) : rel[i] = 46 /\ rel[i + 1] = 46

\* This step starts a call of client c (no other client's call moves).
Starts(c) ==
    /\ ncalls'[c] = ncalls[c] + 1
    /\ pc[c] = "idle"
    /\ \A k \in Clients \ {c} :
         /\ pc'[k] = pc[k] /\ req'[k] = req[k] /\ outcome'[k] = outcome[k]
         /\ io'[k] = io[k]

\* This step is one of the call of client c in progress.
Moves(c) == pc[c] # "idle" /\ io'[c] # io[c]

\* C1: a save whose read of the existing destination returns bytes with a
\* fingerprint other than the request's is answered "conflict" with status
\* 200 (not an error), and the call has written nothing: the step changes no
\* file, and all the call did was the existence check and the read (it
\* created no temporary file).
C1_StaleWriteConflicts ==
    [][ \A c \in Clients :
          ( /\ pc[c] = "read"
            /\ Moves(c)
            /\ io'[c][Len(io'[c])] = "read"
            /\ generate_etag(fs[ReqPath(c)]) # req[c].etag )
          => /\ outcome'[c] = [kind |-> "conflict", status |-> 200]
             /\ pc'[c] = "idle"
             /\ fs' = fs /\ fd' = fd
             /\ io'[c] = <<"exists:yes", "read">>
             /\ wrote'[c] = {} ]_vars

\* C1's case: after a save of client c succeeded, its next save carried
\* another fingerprint than the one returned, was answered "conflict", and
\* the file still holds the content of the first save.
C1_Witness ==
    \E c \in Clients :
        /\ outcome[c].kind = "conflict"
        /\ tok[c].from = "write"
        /\ tok[c].rel = req[c].rel
        /\ tok[c].etag # req[c].etag
        /\ fs[ReqPath(c)] = as_bytes(tok[c].content)

\* C2: with no modification from outside the server, a save of a file that
\* existed at its check answers "ok" only if the file its rename replaces
\* still has the fingerprint the request carries (no lost update under
\* racing writers).
C2_NoLostUpdate ==
    [][ \A c \in Clients :
          ( /\ pc[c] = "rename"
            /\ Moves(c)
            /\ outcome'[c].kind = "ok"
            /\ io[c][1] = "exists:yes"
            /\ fs[ReqPath(c)] # NoFile
            /\ nmods = 0 )
          => generate_etag(fs[ReqPath(c)]) = req[c].etag ]_vars

\* C3: whenever the content of a destination changes, otherwise than from
\* outside the server, the destination then holds entirely the content of
\* one save request for it (never a part or a mix).
C3_AtomicReplace ==
    [][ \A p \in DestPaths :
          (fs'[p] # fs[p] /\ nmods' = nmods)
          => \E c \in Clients :
                /\ req[c].op = "write"
                /\ ReqPath(c) = p
                /\ fs'[p] = as_bytes(req[c].content) ]_vars

\* C4: a read or a save whose path holds ".." is answered InvalidPath (400)
\* at once and before any filesystem operation: the call performed none,
\* changed no file, and the step that starts it changes no file and opens
\* none.
C4_DotDotRejected ==
    [][ \A c \in Clients :
          (req'[c].op # "none" /\ HasDotDot(req'[c].rel))
          => /\ outcome'[c] = [kind |-> "invalid_path", status |-> 400]
             /\ pc'[c] = "idle"
             /\ io'[c] = <<>>
             /\ wrote'[c] = {}
             /\ (Starts(c) => fs' = fs /\ fd' = fd) ]_vars

\* C4's case: both a read and a save with a path holding ".." were rejected.
C4_Witness ==
    \E c, k \in Clients :
        /\ req[c].op = "read" /\ HasDotDot(req[c].rel)
        /\ outcome[c].kind = "invalid_path"
        /\ req[k].op = "write" /\ HasDotDot(req[k].rel)
        /\ outcome[k].kind = "invalid_path"

\* C5: when a save answers Ok(F2), F2 is the fingerprint of the bytes the
\* destination holds after the call; and a read of the same file that
\* follows, the file not having changed in between, returns the saved
\* content with fingerprint F2 (for a content that is text: none of its
\* first 8192 bytes is zero).
C5_RoundTrip ==
    [][ \A c \in Clients :
          /\ (pc[c] = "rename" /\ Moves(c) /\ outcome'[c].kind = "ok")
             => outcome'[c].new_etag = generate_etag(fs'[ReqPath(c)])
          /\ ( /\ Starts(c)
               /\ req'[c].op = "read"
               /\ io'[c] = <<"read">>
               /\ tok[c].from = "write"
               /\ tok[c].rel = req'[c].rel
               /\ ~is_binary(as_bytes(tok[c].content))
               /\ ~chg[c] )
             => /\ outcome'[c].kind = "file"
                /\ outcome'[c].content = tok[c].content
                /\ outcome'[c].etag = tok[c].etag ]_vars

\* C6: a save that carries the fingerprint its client got last for that file
\* (from a read or from a save that succeeded), the file not having changed
\* since, is not answered "conflict".
C6_FreshTokenAccepted ==
    \A c \in Clients :
        ( /\ req[c].op = "write"
          /\ tok[c].from # "none"
          /\ tok[c].rel = req[c].rel
          /\ tok[c].etag = req[c].etag
          /\ ~chg[c] )
        => outcome[c].kind # "conflict"

\* C7: a save that found no file at its destination makes no fingerprint
\* comparison (it never reads the destination) and is never answered
\* "conflict"; when it ends, it answers "ok" with the fingerprint of the
\* request's content and the destination holds that content, or, a
\* filesystem operation having failed, it answers with an error.
C7_NoFileNoConflict ==
    [][ \A c \in Clients :
          (req[c].op = "write" /\ Moves(c) /\ io[c][1] = "exists:no")
          => /\ outcome'[c].kind # "conflict"
             /\ \A i \in 1..Len(io'[c]) : io'[c][i] \notin {"read", "read:fail"}
             /\ pc'[c] = "idle" =>
                  \/ outcome'[c] = [kind |-> "error", status |-> 500]
                  \/ /\ outcome'[c] = [kind |-> "ok", status |-> 200,
                                       new_etag |->
                                         generate_etag(as_bytes(req[c].content))]
                     /\ fs'[ReqPath(c)] = as_bytes(req[c].content) ]_vars

\* C8: a save that ends because its temporary write or its rename failed
\* answers with a terminal error (status 500, neither "ok" nor "conflict"),
\* and the call has not changed its destination.
C8_FailedSaveLeavesDestination ==
    [][ \A c \in Clients :
          ( /\ Moves(c)
            /\ io'[c][Len(io'[c])] \in {"create:fail", "write:fail", "rename:fail"} )
          => /\ outcome'[c] = [kind |-> "error", status |-> 500]
             /\ pc'[c] = "idle"
             /\ ReqPath(c) \notin wrote'[c] ]_vars

\* Whether one of the first n bytes of a run-length string is zero.
ZeroAmongFirst(bytes, n) ==
    \E i \in 1..Len(bytes) :
        bytes[i][1] = 0 /\ RLen(SubSeq(bytes, 1, i - 1)) < n

\* C9: a read is answered, in this order: InvalidPath when the path holds
\* ".."; NotFound when no file is there or it cannot be read; Unsupported
\* when one of the file's first 8192 bytes is zero; else the decoded content
\* and the fingerprint of the file's bytes as they are now.  It changes no
\* file.
C9_ReadOutcome ==
    [][ \A c \in Clients :
          (Starts(c) /\ req'[c].op = "read")
          => LET rel == req'[c].rel
                 bytes == fs[PathJoin(Root, rel)]
             IN  /\ fs' = fs /\ fd' = fd
                 /\ outcome'[c].kind =
                      IF HasDotDot(rel) THEN "invalid_path"
                      ELSE IF bytes = NoFile \/ io'[c] = <<"read:fail">>
                           THEN "not_found"
                      ELSE IF ZeroAmongFirst(bytes, 8192) THEN "unsupported"
                      ELSE "file"
                 /\ outcome'[c].kind = "file" =>
                      /\ outcome'[c].etag = generate_etag(bytes)
                      /\ outcome'[c].content = from_utf8_lossy(bytes) ]_vars

\* C9's case: a file of 8192 bytes "a" and then a zero byte was read as text,
\* and a file holding the byte 0xFF was read as U+FFFD with the fingerprint
\* of its one byte.
C9_Witness ==
    \E c, k \in Clients :
        /\ req[c].op = "read" /\ outcome[c].kind = "file"
        /\ outcome[c].etag = generate_etag(<< <<97, 8192>>, <<0, 1>> >>)
        /\ req[k].op = "read" /\ outcome[k].kind = "file"
        /\ outcome[k].content = << <<65533, 1>> >>
        /\ outcome[k].etag = generate_etag(<< <<255, 1>> >>)

(***************************************************************************)
(* Claims about the workspace search                                       *)
(***************************************************************************)

\* C10: the result list of a search never holds more than 2001 records (the
\* cap and the one record that exceeded it), whatever the traversal meets.
C10_ResultBound == Len(results) <= ResultCap + 1

\* The entry the loop of the search is about to process.
ThisEntry == WalkEntry(sreq.ws, spos)

\* This step is an iteration of the loop of the search.
Iterates == spc = "walk" /\ spos <= WalkLen(sreq.ws) /\ spos' = spos + 1

\* The path of the entry relative to the root of the search.
RelOf(e) == strip_prefix(e.path, WalkRoot(sreq.ws))

\* The records this step appends to the result list.
NewRecords == SubSeq(results', Len(results) + 1, Len(results'))

\* The path has a component that is exactly name.
HasComponent(path, name) ==
    \E i \in 1..Len(path) :
        LET j == i + Len(name) - 1
        IN  /\ j <= Len(path)
            /\ SubSeq(path, i, j) = name
            /\ (i = 1 \/ path[i - 1] = 47)
            /\ (j = Len(path) \/ path[j + 1] = 47)

\* The plain text contains the query, whatever the case of the letters.
HoldsQuery(str, query) ==
    \E i \in 0..(Len(str) - Len(query)) :
        \A k \in 1..Len(query) : LowerChar(str[i + k]) = LowerChar(query[k])

\* C11: a file with a path component (those of the root included) that is
\* exactly .git, node_modules, target, dist or codeedit adds no record; a
\* file without such a component, in a plain search without a suffix filter,
\* whose relative path or readable text holds the query adds records, all
\* of them for its relative path (so a file under target_app is returned).
C11_ExactComponentExclusion ==
    [][ Iterates /\ ThisEntry.kind = "file" =>
          LET e == ThisEntry
              excluded == \E n \in ExcludedNames : HasComponent(e.path, n)
          IN  /\ excluded => results' = results
              /\ ( /\ ~excluded
                    /\ ~sreq.use_regex
                    /\ sreq.glob = NoGlob
                    /\ \/ HoldsQuery(RelOf(e), sreq.query)
                       \/ /\ e.readable
                          /\ ~ZeroAmongFirst(e.bytes, 8192)
                          /\ HoldsQuery(Expand(from_utf8_lossy(e.bytes)), sreq.query) )
                  => /\ Len(results') > Len(results)
                     /\ SubSeq(results', 1, Len(results)) = results
                     /\ \A i \in 1..Len(NewRecords) : NewRecords[i].file = RelOf(e) ]_vars

\* C11's case: a search for "q" ended with a record for target_app/m.rs and
\* none for target/q.rs.
C11_Witness ==
    /\ spc = "done"
    /\ sreq.ws = "small" /\ sreq.query = <<113>> /\ ~sreq.use_regex /\ sreq.glob = NoGlob
    /\ \E i \in 1..Len(results) : results[i].file = <<116, 97, 114, 103, 101, 116, 95, 97, 112, 112, 47, 109, 46, 114, 115>>
    /\ \A i \in 1..Len(results) : results[i].file # <<116, 97, 114, 103, 101, 116, 47, 113, 46, 114, 115>>

\* C12: a search in regex mode whose query does not compile produces no
\* record at all, from paths or from contents.
C12_FailedRegexNoRecords ==
    (sreq.use_regex /\ RegexBuild(sreq.query) = NoRegex) => results = <<>>

\* The entry is a candidate of the search: a regular file with no excluded
\* component whose path ends with the suffix asked for, if any.
Candidate(e) ==
    /\ e.kind = "file"
    /\ ~\E n \in ExcludedNames : HasComponent(e.path, n)
    /\ sreq.glob # NoGlob => ends_with(e.path, trim_start_matches(sreq.glob, 42))

\* Whether a plain string matches the query of the search: in regex mode
\* the compiled expression matches somewhere in it (an expression that does
\* not compile matches nothing), else it holds the query whatever the case.
QueryMatches(str) ==
    IF sreq.use_regex
    THEN /\ RegexBuild(sreq.query) # NoRegex
         /\ \E i \in 0..Len(str) : RegexMatchesAt(RegexBuild(sreq.query), str, i)
    ELSE HoldsQuery(str, sreq.query)

\* The filename record of an entry.
FilenameRecord(e) ==
    [file |-> RelOf(e), line |-> 1, column |-> 1,
     preview |-> RStr(FilenamePrefix \o RelOf(e))]

\* The lines of the text of a readable file that is not binary, as plain
\* strings; none for another entry.
TextLines(e) ==
    IF e.readable /\ ~ZeroAmongFirst(e.bytes, 8192)
    THEN LET ls == RLines(from_utf8_lossy(e.bytes), <<>>)
         IN  [i \in 1..Len(ls) |-> Expand(ls[i])]
    ELSE <<>>

\* What C13 says of an iteration on a candidate: the list is extended; when
\* the relative path matches, the first new record is the filename record,
\* and the only new one if no line matches; when it does not match, no
\* filename record is added.
FilenameRule(e) ==
    LET nolines == \A i \in 1..Len(TextLines(e)) : ~QueryMatches(TextLines(e)[i])
    IN  /\ SubSeq(results', 1, Len(results)) = results
        /\ IF QueryMatches(RelOf(e))
           THEN /\ NewRecords # <<>>
                /\ NewRecords[1] = FilenameRecord(e)
                /\ nolines => NewRecords = <<FilenameRecord(e)>>
           ELSE /\ nolines => NewRecords = <<>>
                /\ NewRecords # <<>> => NewRecords[1] # FilenameRecord(e)

\* C13: an iteration on a candidate file emits exactly one filename record
\* (line 1, column 1, "FILENAME MATCH: " and the relative path), before any
\* content record of the file, if the relative path matches the query, and
\* none otherwise.
C13_FilenameRecord ==
    [][ Iterates /\ Candidate(ThisEntry) => FilenameRule(ThisEntry) ]_vars

\* C14: an iteration on a candidate file that is read and has a zero byte
\* among its first 8192 bytes adds no content record, whatever the query:
\* it adds nothing, or the filename record alone, and it does add the
\* filename record when the relative path matches the query.
C14_BinarySkip ==
    [][ ( /\ Iterates
          /\ Candidate(ThisEntry)
          /\ ThisEntry.readable
          /\ ZeroAmongFirst(ThisEntry.bytes, 8192) )
        => /\ SubSeq(results', 1, Len(results)) = results
           /\ NewRecords \in {<<>>, <<FilenameRecord(ThisEntry)>>}
           /\ QueryMatches(RelOf(ThisEntry)) =>
                NewRecords = <<FilenameRecord(ThisEntry)>> ]_vars

\* C14's case: a search for "q" ended with the filename record of
\* q8192.bin (its zero byte is the 8192nd) as the only record of that file,
\* and with a content record of q8193.txt (its zero byte is the 8193rd).
C14_Witness ==
    /\ spc = "done"
    /\ sreq.ws = "small" /\ sreq.query = <<113>> /\ ~sreq.use_regex /\ sreq.glob = NoGlob
    /\ \E i \in 1..Len(results) :
         /\ results[i].file = <<113, 56, 49, 57, 50, 46, 98, 105, 110>>
         /\ results[i].preview = RStr(FilenamePrefix \o <<113, 56, 49, 57, 50, 46, 98, 105, 110>>)
         /\ \A j \in 1..Len(results) : results[j].file = <<113, 56, 49, 57, 50, 46, 98, 105, 110>> => j = i
    /\ \E i \in 1..Len(results) :
         /\ results[i].file = <<113, 56, 49, 57, 51, 46, 116, 120, 116>>
         /\ results[i].preview = << <<113, 200>> >>

\* Whether the query matches the plain string at character i (from 0).
MatchesAt(str, i) ==
    IF sreq.use_regex
    THEN /\ RegexBuild(sreq.query) # NoRegex
         /\ RegexMatchesAt(RegexBuild(sreq.query), str, i)
    ELSE /\ i + Len(sreq.query) <= Len(str)
         /\ \A k \in 1..Len(sreq.query) : LowerChar(str[i + k]) = LowerChar(sreq.query[k])

\* The column of the first match in a line that matches: its byte offset + 1.
FirstColumn(str) ==
    LET i == CHOOSE i \in 0..Len(str) :
                 MatchesAt(str, i) /\ \A j \in 0..(i - 1) : ~MatchesAt(str, j)
    IN  ByteOffset(str, i) + 1

\* The content records among the records this step appends: all but a
\* leading filename record.
ContentRecords(e) ==
    IF NewRecords # <<>> /\ NewRecords[1] = FilenameRecord(e)
    THEN Tail(NewRecords) ELSE NewRecords

\* What C15 says of an iteration on a text file: one content record for
\* each line that matches and none for another line, in ascending line
\* order, with the line's number from 1 and the column of its first match.
ContentRule(e) ==
    LET lines == TextLines(e)
        hits == { i \in 1..Len(lines) : QueryMatches(lines[i]) }
        recs == ContentRecords(e)
    IN  /\ SubSeq(results', 1, Len(results)) = results
        /\ Len(recs) = Cardinality(hits)
        /\ \A k \in 1..Len(recs) :
             /\ recs[k].file = RelOf(e)
             /\ recs[k].line \in hits
             /\ k > 1 => recs[k - 1].line < recs[k].line
             /\ recs[k].column = FirstColumn(lines[recs[k].line])

\* C15: an iteration on a candidate file that is read as text, the list
\* staying within its cap, adds exactly one content record per matching
\* line, in line order, with line number and column as stated.
C15_ContentRecords ==
    [][ ( /\ Iterates
          /\ Candidate(ThisEntry)
          /\ ThisEntry.readable
          /\ ~ZeroAmongFirst(ThisEntry.bytes, 8192)
          /\ Len(results') <= ResultCap )
        => ContentRule(ThisEntry) ]_vars

\* C16: an iteration on a file that cannot be read, or on an entry the
\* traversal failed on, adds no record and does not end the search.
C16_UnreadableSkipped ==
    [][ ( /\ Iterates
          /\ \/ ThisEntry.kind = "error"
             \/ ThisEntry.kind = "file" /\ ~ThisEntry.readable )
        => /\ results' = results
           /\ spc' = "walk" ]_vars

\* C17: the preview of every record of the result list, filename record or
\* content record, has at most 200 characters and neither starts nor ends
\* with whitespace.
C17_PreviewBound ==
    \A i \in 1..Len(results) :
        LET p == results[i].preview
        IN  /\ RLen(p) <= PreviewLimit
            /\ p # <<>> => ~IsSpace(p[1][1]) /\ ~IsSpace(p[Len(p)][1])


(***************************************************************************)
(* Claims about what a save leaves alone                                   *)
(***************************************************************************)

\* A save call of client c has returned.
Returned(c) ==
    /\ req[c] # NoReq
    /\ req[c].op = "write"
    /\ pc[c] = "idle"
    /\ outcome[c].kind # "none"

\* Client c is the only one that has made a call, and nothing outside the
\* server has changed a file.
OnlyCaller(c) ==
    /\ nmods = 0
    /\ \A k \in Clients \ {c} : ncalls[k] = 0

\* C18: a save changes no file other than its destination; a file that sat
\* at the derived temporary path before the call still exists and keeps its
\* content once the call has returned, whatever its outcome.
C18_SaveFrame ==
    \A c \in Clients :
        ( /\ Returned(c)
          /\ OnlyCaller(c)
          /\ ReqPath(c) # NoPath )
        => \A p \in FsPaths \ {ReqPath(c)} :
               fs[p] = FrameFs(NoFile)[p]

\* C19: two saves of distinct files, each carrying the current fingerprint
\* of its own file and no file operation failing, both succeed and each
\* destination then holds the content of its own call; this includes a.rs
\* and a.txt, which share the temporary path.
C19_DistinctFilesIsolated ==
    \A c, k \in Clients :
        ( /\ c # k
          /\ Returned(c) /\ Returned(k)
          /\ ncalls[c] = 1 /\ ncalls[k] = 1
          /\ ReqPath(c) # ReqPath(k) )
        => /\ outcome[c].kind = "ok" /\ outcome[k].kind = "ok"
           /\ fs[ReqPath(c)] = as_bytes(req[c].content)
           /\ fs[ReqPath(k)] = as_bytes(req[k].content)

====
